---- MODULE Spec2Model ----
(***************************************************************************)
(* Model of the listing-to-XMLTV pipeline of rt2xmltv.py (legacy "~" text  *)
(* format) and sd2xmltv.py (schedule-API format): Programmes.__iter__,     *)
(* Files.write, Files.close and the main() loop that drives them.          *)
(*                                                                         *)
(* Python str values that the code inspects (split, lower, int, compare)   *)
(* are sequences of one-character strings; element and attribute names,    *)
(* which are literals of the code, are TLA+ strings.                       *)
(***************************************************************************)
EXTENDS Integers, Sequences, FiniteSets, TLC

VARIABLES fmt, start_hour, tzoff, now, pc, chan, nread, line, yielded, files, opened, err

vars == <<fmt, start_hour, tzoff, now, pc, chan, nread, line, yielded, files, opened, err>>

----------------------------------------------------------------------------
(* Bounds of the model. *)

\* lines/programs read over a whole run of main()
MaxRecords == 2

\* calls made on a Files object by a client other than main()
MaxCalls == 3

----------------------------------------------------------------------------
(* Python str primitives. *)

UpperChars == <<"A","B","C","D","E","F","G","H","I","J","K","L","M",
                "N","O","P","Q","R","S","T","U","V","W","X","Y","Z">>
LowerChars == <<"a","b","c","d","e","f","g","h","i","j","k","l","m",
                "n","o","p","q","r","s","t","u","v","w","x","y","z">>
DigitChars == <<"0","1","2","3","4","5","6","7","8","9">>

\* str.lower() on one character
LowerChar(c) ==
    IF \E i \in 1..Len(UpperChars) : UpperChars[i] = c
    THEN LowerChars[CHOOSE i \in 1..Len(UpperChars) : UpperChars[i] = c]
    ELSE c

\* str.lower()
Lower(s) == [i \in 1..Len(s) |-> LowerChar(s[i])]

\* sep in s
Contains(s, sep) == \E i \in 1..Len(s) : s[i] = sep

\* s.split(sep) for a one-character separator: always at least one field
Split(s, sep) ==
    LET at == {i \in 1..Len(s) : s[i] = sep}
        \* position of the k-th separator; 0 and Len(s) + 1 bracket the string
        cut(k) == IF k = 0 THEN 0
                  ELSE IF k > Cardinality(at) THEN Len(s) + 1
                  ELSE CHOOSE i \in at : Cardinality({j \in at : j < i}) = k - 1
    IN [k \in 1..(Cardinality(at) + 1) |-> SubSeq(s, cut(k - 1) + 1, cut(k) - 1)]

\* sep.join(parts)
RECURSIVE Join(_, _)
Join(parts, sep) ==
    IF parts = <<>> THEN <<>>
    ELSE IF Len(parts) = 1 THEN parts[1]
    ELSE parts[1] \o sep \o Join(Tail(parts), sep)

IsDigit(c) == \E i \in 1..10 : DigitChars[i] = c
DigitVal(c) == (CHOOSE i \in 1..10 : DigitChars[i] = c) - 1

\* int(s) succeeds (decimal digits only; signs and blanks are not in the inputs)
IsInt(s) == s # <<>> /\ \A i \in 1..Len(s) : IsDigit(s[i])

\* int(s)
RECURSIVE IntOf(_)
IntOf(s) ==
    IF s = <<>> THEN 0
    ELSE 10 * IntOf(SubSeq(s, 1, Len(s) - 1)) + DigitVal(s[Len(s)])

\* "%0<w>d" % n
RECURSIVE Digits(_, _)
Digits(n, w) ==
    IF w = 0 THEN <<>>
    ELSE Append(Digits(n \div 10, w - 1), DigitChars[(n % 10) + 1])

----------------------------------------------------------------------------
(* datetime / timedelta arithmetic. *)

IsLeap(y) == (y % 4 = 0 /\ y % 100 # 0) \/ y % 400 = 0

DaysInMonth(y, m) ==
    IF m = 2 THEN (IF IsLeap(y) THEN 29 ELSE 28)
    ELSE IF m \in {4, 6, 9, 11} THEN 30 ELSE 31

\* datetime(year, month, day, hour, minute, second) does not raise ValueError
ValidDateTime(y, m, d, hh, mm, ss) ==
    /\ y \in 1..9999
    /\ m \in 1..12
    /\ d \in 1..DaysInMonth(y, m)
    /\ hh \in 0..23
    /\ mm \in 0..59
    /\ ss \in 0..59

DateTime(y, m, d, hh, mm, ss) ==
    [year |-> y, month |-> m, day |-> d, hour |-> hh, minute |-> mm, second |-> ss]

\* dt + timedelta(1)
NextDay(dt) ==
    IF dt.day < DaysInMonth(dt.year, dt.month) THEN [dt EXCEPT !.day = dt.day + 1]
    ELSE IF dt.month < 12 THEN [dt EXCEPT !.day = 1, !.month = dt.month + 1]
    ELSE [dt EXCEPT !.day = 1, !.month = 1, !.year = dt.year + 1]

\* dt - timedelta(1)
PrevDay(dt) ==
    IF dt.day > 1 THEN [dt EXCEPT !.day = dt.day - 1]
    ELSE IF dt.month > 1
         THEN [dt EXCEPT !.day = DaysInMonth(dt.year, dt.month - 1), !.month = dt.month - 1]
    ELSE [dt EXCEPT !.day = 31, !.month = 12, !.year = dt.year - 1]

\* the key datetime comparison sorts on
DtKey(dt) == <<dt.year, dt.month, dt.day, dt.hour, dt.minute, dt.second>>

RECURSIVE LexLess(_, _)
LexLess(a, b) ==
    IF a = <<>> THEN FALSE
    ELSE IF a[1] # b[1] THEN a[1] < b[1]
    ELSE LexLess(Tail(a), Tail(b))

\* a < b on datetimes of the same zone
DtLess(a, b) == LexLess(DtKey(a), DtKey(b))

\* dt.replace(hour=0, minute=0)
ReplaceHourMinute0(dt) == [dt EXCEPT !.hour = 0, !.minute = 0]

\* dt.date()
DateOf(dt) == <<dt.year, dt.month, dt.day>>

\* dt.strftime("%Y%m%d")
StrfDate(dt) == Digits(dt.year, 4) \o Digits(dt.month, 2) \o Digits(dt.day, 2)

\* dt.strftime("%Y%m%d%H%M%S")
StrfStamp(dt) ==
    StrfDate(dt) \o Digits(dt.hour, 2) \o Digits(dt.minute, 2) \o Digits(dt.second, 2)

----------------------------------------------------------------------------
(* Python values handed to Files._write_element, and the SAX calls it makes. *)

PyNone == [k |-> "none"]
PyStr(s) == [k |-> "str", s |-> s]
PyBool(b) == [k |-> "bool", b |-> b]
PyList(items) == [k |-> "list", items |-> items]
PyTuple(item) == [k |-> "tuple", item |-> item]
PyDt(dt) == [k |-> "datetime", dt |-> dt]

\* one (name, value[, attrs]) argument tuple of _write_element
Item(name, value, attrs) == [name |-> name, value |-> value, attrs |-> attrs]

\* bool(value)
Truthy(v) ==
    CASE v.k = "none" -> FALSE
      [] v.k = "str" -> v.s # <<>>
      [] v.k = "bool" -> v.b
      [] v.k = "list" -> v.items # <<>>
      [] OTHER -> TRUE

\* calls on the XMLGenerator g and raw writes on the file f, in order
StartElement(name, attrs) == [t |-> "start", name |-> name, attrs |-> attrs]
Characters(text) == [t |-> "chars", text |-> text]
EndElement(name) == [t |-> "end", name |-> name]
StartDocument == [t |-> "startDocument"]
EndDocument == [t |-> "endDocument"]
RawWrite(what) == [t |-> "raw", raw |-> what]

\* Files._write_element(g, name, value, attrs): the calls it makes on g
RECURSIVE _write_element(_, _, _)
_write_element(name, value, attrs) ==
    LET RECURSIVE each(_)
        each(items) ==
            IF items = <<>> THEN <<>>
            ELSE _write_element(items[1].name, items[1].value, items[1].attrs)
                 \o each(Tail(items))
    IN IF Truthy(value)
       THEN <<StartElement(name, attrs)>>
            \o (CASE value.k = "list" -> each(value.items)
                  [] value.k = "tuple" ->
                        _write_element(value.item.name, value.item.value, value.item.attrs)
                  [] value.k = "bool" -> <<>>
                  [] OTHER -> <<Characters(value.s)>>)
            \o <<EndElement(name)>>
       ELSE <<>>

----------------------------------------------------------------------------
(* rt2xmltv.py: the Fields enumeration (0-based, as IntEnum counts). *)

Fields_title == 0
Fields_sub_title == 1
Fields_episode == 2
Fields_year == 3
Fields_director == 4
Fields_cast == 5
Fields_premiere == 6
Fields_film == 7
Fields_repeat == 8
Fields_subtitles == 9
Fields_widescreen == 10
Fields_new_series == 11
Fields_deaf_signed == 12
Fields_black_and_white == 13
Fields_star_rating == 14
Fields_certificate == 15
Fields_genre == 16
Fields_desc == 17
Fields_choice == 18
Fields_date == 19
Fields_start == 20
Fields_stop == 21
Fields_duration_mins == 22

\* an arity one short of the enumeration
LenFieldsShort == Fields_duration_mins

\* len(Fields)
LenFields == Fields_duration_mins + 1

BOOL_FIELDS == {Fields_premiere, Fields_film, Fields_repeat, Fields_subtitles,
                Fields_widescreen, Fields_new_series, Fields_deaf_signed,
                Fields_black_and_white, Fields_choice}

\* data[field] of a Python list
At(data, field) == data[field + 1]

\* data[field] = value
Put(data, field, value) == [data EXCEPT ![field + 1] = value]

S_true == <<"t","r","u","e">>
S_film == <<"f","i","l","m">>
S_Film == <<"F","i","l","m">>
S_no_genre == <<"n","o"," ","g","e","n","r","e">>

----------------------------------------------------------------------------
(* rt2xmltv.py: Programmes.__iter__, one pass of the loop body over a line. *)

\* what one pass of a generator's loop body does: raise exc, or yield (filedate, data)
Raise(exc) == [exc |-> exc]
Yield(filedate, data) == [exc |-> "", filedate |-> filedate, data |-> data]

\* for field in BOOL_FIELDS: data[field] = data[field] == "true"
CoerceBools(data) ==
    [i \in 1..Len(data) |->
        IF (i - 1) \in BOOL_FIELDS THEN PyBool(data[i] = PyStr(S_true)) ELSE data[i]]

\* one entry of the cast field: "Actor (Character)" for character*actor, else the name
ActorName(x) ==
    LET actor == Split(x, "*")
    IN IF Len(actor) = 1 THEN actor[1]
       ELSE actor[2] \o <<" ", "(">> \o actor[1] \o <<")">>

\* if data[Fields.cast]: ... data[Fields.cast] = actors
SplitCast(data) ==
    LET cast == At(data, Fields_cast).s
        parts == Split(cast, IF Contains(cast, "|") THEN "|" ELSE ",")
    IN IF Truthy(At(data, Fields_cast))
       THEN Put(data, Fields_cast,
                PyList([i \in 1..Len(parts) |-> PyStr(ActorName(parts[i]))]))
       ELSE data

\* if data[Fields.star_rating]: data[Fields.star_rating] += "/5"
StarRating(data) ==
    IF Truthy(At(data, Fields_star_rating))
    THEN Put(data, Fields_star_rating,
             PyStr(At(data, Fields_star_rating).s \o <<"/", "5">>))
    ELSE data

\* the film/genre rule comparing the genre without lower()
FilmGenreCaseSensitive(data) ==
    IF Truthy(At(data, Fields_film))
    THEN LET d1 == Put(data, Fields_film, PyStr(S_Film))
         IN IF At(d1, Fields_genre).s = S_Film
            THEN Put(d1, Fields_genre, PyStr(<<>>))
            ELSE d1
    ELSE data

\* if data[Fields.film]: data[Fields.film] = "Film"; genre "film" is cleared
FilmGenre(data) ==
    IF Truthy(At(data, Fields_film))
    THEN LET d1 == Put(data, Fields_film, PyStr(S_Film))
         IN IF Lower(At(d1, Fields_genre).s) = S_film
            THEN Put(d1, Fields_genre, PyStr(<<>>))
            ELSE d1
    ELSE data

\* if data[Fields.genre].lower() == "no genre": data[Fields.genre] = ""
NoGenre(data) ==
    IF Lower(At(data, Fields_genre).s) = S_no_genre
    THEN Put(data, Fields_genre, PyStr(<<>>))
    ELSE data

\* (a, b, ...) = map(int, s.split(sep)) unpacks into n names without ValueError
IntsOk(s, sep, n) ==
    LET parts == Split(s, sep)
    IN Len(parts) = n /\ \A i \in 1..n : IsInt(parts[i])

Ints(s, sep) ==
    LET parts == Split(s, sep)
    IN [i \in 1..Len(parts) |-> IntOf(parts[i])]

\* the overnight rule with "<=" for "<"
OvernightLe(start, stop) == IF ~DtLess(start, stop) THEN NextDay(stop) ELSE stop

\* if stop < start: stop += timedelta(1)
Overnight(start, stop) == IF DtLess(stop, start) THEN NextDay(stop) ELSE stop

RtIterBody(ln) ==
    LET raw == Split(ln, "~") IN
    IF Len(raw) # LenFields THEN Raise("Exception")
    ELSE
    LET data0 == [i \in 1..Len(raw) |-> PyStr(raw[i])]
        data == NoGenre(FilmGenre(StarRating(SplitCast(CoerceBools(data0)))))
        fdate == At(data, Fields_date).s
        fstart == At(data, Fields_start).s
        fstop == At(data, Fields_stop).s
    IN IF ~(IntsOk(fdate, "/", 3) /\ IntsOk(fstart, ":", 2) /\ IntsOk(fstop, ":", 2))
       THEN Raise("ValueError")
       ELSE
       LET dmy == Ints(fdate, "/")
           hm1 == Ints(fstart, ":")
           hm2 == Ints(fstop, ":")
       IN IF ~(ValidDateTime(dmy[3], dmy[2], dmy[1], hm1[1], hm1[2], 0)
               /\ ValidDateTime(dmy[3], dmy[2], dmy[1], hm2[1], hm2[2], 0))
          THEN Raise("ValueError")
          ELSE
          LET start == DateTime(dmy[3], dmy[2], dmy[1], hm1[1], hm1[2], 0)
              stop == Overnight(start, DateTime(dmy[3], dmy[2], dmy[1], hm2[1], hm2[2], 0))
              out == Put(Put(data, Fields_start, PyDt(start)), Fields_stop, PyDt(stop))
          IN Yield(ReplaceHourMinute0(start), out)

----------------------------------------------------------------------------
(* sd2xmltv.py: Programmes.__iter__, one pass of the loop body over a      *)
(* schedule entry. A schedule entry is [airDateTime, duration, data]: the  *)
(* program of the schedule joined with its self.program_data detail dict;  *)
(* dicts are functions whose DOMAIN is the set of keys present.            *)

\* characters in code point order, for str comparison
AsciiChars == <<" ", "(", ")", "*", ",", "-", "/",
                "0","1","2","3","4","5","6","7","8","9", ":",
                "A","B","C","D","E","F","G","H","I","J","K","L","M",
                "N","O","P","Q","R","S","T","U","V","W","X","Y","Z",
                "a","b","c","d","e","f","g","h","i","j","k","l","m",
                "n","o","p","q","r","s","t","u","v","w","x","y","z", "|", "~">>

Ord(c) == CHOOSE i \in 1..Len(AsciiChars) : AsciiChars[i] = c

\* a < b on str
RECURSIVE StrLess(_, _)
StrLess(a, b) ==
    IF b = <<>> THEN FALSE
    ELSE IF a = <<>> THEN TRUE
    ELSE IF a[1] # b[1] THEN Ord(a[1]) < Ord(b[1])
    ELSE StrLess(Tail(a), Tail(b))

\* key=lambda x: (x["billingOrder"], x["role"], x["name"])
MemberKey(x) == <<x.billingOrder, x.role, x.name>>

\* a < b on tuples of str
RECURSIVE TupleLess(_, _)
TupleLess(a, b) ==
    IF b = <<>> THEN FALSE
    ELSE IF a = <<>> THEN TRUE
    ELSE IF a[1] # b[1] THEN StrLess(a[1], b[1])
    ELSE TupleLess(Tail(a), Tail(b))

\* sorted(members, key=MemberKey): stable
RECURSIVE SortedMembers(_)
SortedMembers(members) ==
    IF members = <<>> THEN <<>>
    ELSE LET rest == SortedMembers(SubSeq(members, 1, Len(members) - 1))
             x == members[Len(members)]
             \* x goes after every element whose key is not greater than x's
             n == Cardinality({i \in 1..Len(rest) :
                                 ~TupleLess(MemberKey(x), MemberKey(rest[i]))})
         IN SubSeq(rest, 1, n) \o <<x>> \o SubSeq(rest, n + 1, Len(rest))

S_voice == <<"v","o","i","c","e">>
S_host == <<"h","o","s","t">>
S_anchor == <<"a","n","c","h","o","r">>
S_guest == <<"g","u","e","s","t">>
S_contestent == <<"c","o","n","t","e","s","t","e","n","t">>
S_actor == <<"a","c","t","o","r">>
S_presenter == <<"p","r","e","s","e","n","t","e","r">>
S_director == <<"d","i","r","e","c","t","o","r">>
S_writer == <<"w","r","i","t","e","r">>
S_adapter == <<"a","d","a","p","t","e","r">>
S_producer == <<"p","r","o","d","u","c","e","r">>
S_composer == <<"c","o","m","p","o","s","e","r">>
S_editor == <<"e","d","i","t","o","r">>
S_commentator == <<"c","o","m","m","e","n","t","a","t","o","r">>

\* role = member["role"].lower(), then the if/elif chain
MapRole(role) ==
    LET r == Lower(role)
    IN IF r \in {S_voice} THEN S_actor
       ELSE IF r \in {S_host, S_anchor} THEN S_presenter
       ELSE IF r \in {S_guest, S_contestent} THEN S_guest
       ELSE r

CreditRoles == {S_director, S_actor, S_writer, S_adapter, S_producer, S_composer,
                S_editor, S_presenter, S_commentator, S_guest}

\* the element name a kept role is written under
RoleElement(r) ==
    CASE r = S_director -> "director"
      [] r = S_actor -> "actor"
      [] r = S_writer -> "writer"
      [] r = S_adapter -> "adapter"
      [] r = S_producer -> "producer"
      [] r = S_composer -> "composer"
      [] r = S_editor -> "editor"
      [] r = S_presenter -> "presenter"
      [] r = S_commentator -> "commentator"
      [] r = S_guest -> "guest"

\* name = member["name"] (+ " (" + member["characterName"] + ")")
MemberName(member) ==
    IF "characterName" \in DOMAIN member
    THEN member.name \o <<" ", "(">> \o member.characterName \o <<")">>
    ELSE member.name

\* dict.get(key, default)
Get(d, key, default) == IF key \in DOMAIN d THEN d[key] ELSE default

\* the (role, name) tuples appended to cast, in order
RECURSIVE Credits(_)
Credits(members) ==
    IF members = <<>> THEN <<>>
    ELSE LET role == MapRole(members[1].role)
         IN (IF role \in CreditRoles
             THEN <<Item(RoleElement(role), PyStr(MemberName(members[1])), <<>>)>>
             ELSE <<>>)
            \o Credits(Tail(members))

\* if "cast" in data or "crew" in data: ... data["cast"] = cast
MapCast(data) ==
    IF "cast" \in DOMAIN data \/ "crew" \in DOMAIN data
    THEN ("cast" :> Credits(SortedMembers(Get(data, "cast", <<>>) \o Get(data, "crew", <<>>))))
         @@ data
    ELSE data

\* datetime.strptime(s, "%Y-%m-%dT%H:%M:%SZ") does not raise ValueError
\* (zero-padded fields, as the provider sends them)
StrptimeOk(s) ==
    /\ Len(s) = 20
    /\ s[5] = "-" /\ s[8] = "-" /\ s[11] = "T" /\ s[14] = ":" /\ s[17] = ":" /\ s[20] = "Z"
    /\ \A i \in {1, 2, 3, 4, 6, 7, 9, 10, 12, 13, 15, 16, 18, 19} : IsDigit(s[i])
    /\ ValidDateTime(IntOf(SubSeq(s, 1, 4)), IntOf(SubSeq(s, 6, 7)), IntOf(SubSeq(s, 9, 10)),
                     IntOf(SubSeq(s, 12, 13)), IntOf(SubSeq(s, 15, 16)), IntOf(SubSeq(s, 18, 19)))

Strptime(s) ==
    DateTime(IntOf(SubSeq(s, 1, 4)), IntOf(SubSeq(s, 6, 7)), IntOf(SubSeq(s, 9, 10)),
             IntOf(SubSeq(s, 12, 13)), IntOf(SubSeq(s, 15, 16)), IntOf(SubSeq(s, 18, 19)))

\* dt + timedelta(seconds=n)
RECURSIVE AddSeconds(_, _)
AddSeconds(dt, n) ==
    LET tod == dt.hour * 3600 + dt.minute * 60 + dt.second + n
    IN IF tod < 0 THEN AddSeconds(PrevDay(dt), n + 86400)
       ELSE IF tod >= 86400 THEN AddSeconds(NextDay(dt), n - 86400)
       ELSE [dt EXCEPT !.hour = tod \div 3600, !.minute = (tod % 3600) \div 60,
                       !.second = tod % 60]

SdIterBody(program) ==
    LET data == MapCast(program.data)
    IN IF ~StrptimeOk(program.airDateTime) THEN Raise("ValueError")
       ELSE LET start == Strptime(program.airDateTime)
                stop == AddSeconds(start, program.duration)
            IN Yield(ReplaceHourMinute0(start),
                     ("start" :> start) @@ ("stop" :> stop) @@ data)

----------------------------------------------------------------------------
(* Configuration (config["channels"], in configuration order). The second  *)
(* channel of each list has no "disp".                                     *)

S_BBC1 == <<"B","B","C","1">>
S_bbc1 == <<"b","b","c","1">>
S_BBC_One == <<"B","B","C"," ","O","n","e">>
S_ITV == <<"I","T","V">>
S_itv == <<"i","t","v">>

RtConfigChannels ==
    << [name |-> S_BBC1, id |-> S_bbc1, disp |-> S_BBC_One],
       [name |-> S_ITV, id |-> S_itv] >>

\* config["channels"].items() of sd2xmltv: (lineup, channels) pairs
SdConfigChannels ==
    << [lineup |-> "GBR-1", channels |-> <<[name |-> S_BBC1, id |-> S_bbc1, disp |-> S_BBC_One]>>],
       [lineup |-> "GBR-2", channels |-> <<[name |-> S_ITV, id |-> S_itv]>>] >>

\* for (lineup, channels) in ...: for channel in channels: the channels in loop order
RECURSIVE Flatten(_)
Flatten(lineups) ==
    IF lineups = <<>> THEN <<>> ELSE lineups[1].channels \o Flatten(Tail(lineups))

\* the channels in the order both main() and Files.write loop over them
Channels(f) == IF f = "rt" THEN RtConfigChannels ELSE Flatten(SdConfigChannels)

----------------------------------------------------------------------------
(* Files: self.files is a dict in insertion order, modelled as a sequence  *)
(* of entries [key, name, out, closed]: key is the filedate, name the path *)
(* given to open(), out the calls made on (f, g) so far, closed whether    *)
(* f.close() has been called. `opened` logs every open(path, "wb").        *)

S_tv_ == <<"t","v","-">>
S_xmltv == <<".","x","m","l","t","v">>

\* filedate.strftime("tv-%Y%m%d.xmltv")
FileName(filedate) == S_tv_ \o StrfDate(filedate) \o S_xmltv

\* filedate in self.files
HasKey(fs, key) == \E i \in 1..Len(fs) : fs[i].key = key

\* position of self.files[key]
KeyIndex(fs, key) == CHOOSE i \in 1..Len(fs) : fs[i].key = key

SourceInfoName(f) ==
    IF f = "rt" THEN <<"R","a","d","i","o"," ","T","i","m","e","s">>
    ELSE <<"S","c","h","e","d","u","l","e","s"," ","D","i","r","e","c","t">>

\* one channel declaration and the newline after it
ChannelDecl(channel) ==
    _write_element("channel",
                   PyTuple(Item("display-name",
                                PyStr(IF "disp" \in DOMAIN channel THEN channel.disp
                                      ELSE channel.name),
                                <<>>)),
                   << <<"id", channel.id>> >>)
    \o <<RawWrite("\n")>>

\* the channel declarations in reverse configuration order
RECURSIVE ChannelDeclsReversed(_)
ChannelDeclsReversed(channels) ==
    IF channels = <<>> THEN <<>>
    ELSE ChannelDeclsReversed(Tail(channels)) \o ChannelDecl(channels[1])

RECURSIVE ChannelDecls(_)
ChannelDecls(channels) ==
    IF channels = <<>> THEN <<>>
    ELSE ChannelDecl(channels[1]) \o ChannelDecls(Tail(channels))

\* what is written to a file when it is created
Header(f) ==
    <<StartDocument, RawWrite("<!DOCTYPE tv SYSTEM \"xmltv.dtd\">\n"),
      StartElement("tv", << <<"source-info-name", SourceInfoName(f)>> >>), RawWrite("\n")>>
    \o ChannelDecls(Channels(f))

\* if filedate not in self.files
MustOpen(fs, filedate) == ~HasKey(fs, filedate)

\* the start-hour shift with "<=" for "<"
ShiftDayLe(filedate, start, startHour) ==
    IF start.hour <= startHour THEN PrevDay(filedate) ELSE filedate

\* if programme[start].hour < self.config["files"]["start_hour"]: filedate -= timedelta(1)
ShiftDay(filedate, start, startHour) ==
    IF start.hour < startHour THEN PrevDay(filedate) ELSE filedate

\* the past-day test with "<=" for "<"
IsPastLe(filedate, today) == ~DtLess(today, filedate)

\* if filedate < self.now: return
IsPast(filedate, today) == DtLess(filedate, today)

\* ": ".join(filter(None, parts))
JoinNonEmpty(parts) ==
    Join(SelectSeq(parts, LAMBDA x : x # <<>>), <<":", " ">>)

\* rt2xmltv Files.write from g.startElement("programme") on: the calls on (f, g)
RtProgramme(id, programme) ==
    LET P(field) == At(programme, field)
        cast == IF P(Fields_cast).k = "list" THEN P(Fields_cast).items ELSE <<>>
    IN <<StartElement("programme",
                      << <<"channel", id>>,
                         <<"start", StrfStamp(P(Fields_start).dt)>>,
                         <<"stop", StrfStamp(P(Fields_stop).dt)>> >>)>>
       \o _write_element("title", P(Fields_title), <<>>)
       \o _write_element("sub-title",
                         PyStr(JoinNonEmpty(<<P(Fields_sub_title).s, P(Fields_episode).s>>)),
                         <<>>)
       \o _write_element("desc", P(Fields_desc), <<>>)
       \o (IF Truthy(P(Fields_director)) \/ Truthy(P(Fields_cast))
           THEN _write_element("credits",
                    PyList(<<Item("director", P(Fields_director), <<>>)>>
                           \o [i \in 1..Len(cast) |-> Item("actor", cast[i], <<>>)]),
                    <<>>)
           ELSE <<>>)
       \o _write_element("year", P(Fields_year), <<>>)
       \o (IF Truthy(P(Fields_widescreen)) \/ Truthy(P(Fields_black_and_white))
           THEN _write_element("video",
                    PyList(<<Item("aspect",
                                  IF Truthy(P(Fields_widescreen))
                                  THEN PyStr(<<"1","6",":","9">>) ELSE PyNone, <<>>),
                             Item("colour",
                                  IF Truthy(P(Fields_black_and_white))
                                  THEN PyStr(<<"n","o">>) ELSE PyNone, <<>>)>>),
                    <<>>)
           ELSE <<>>)
       \o _write_element("premiere", P(Fields_premiere), <<>>)
       \o _write_element("new", P(Fields_new_series), <<>>)
       \o _write_element("subtitles", P(Fields_subtitles),
                         << <<"type", <<"t","e","l","e","t","e","x","t">> >> >>)
       \o (IF Truthy(P(Fields_star_rating))
           THEN _write_element("star-rating",
                               PyTuple(Item("value", P(Fields_star_rating), <<>>)), <<>>)
           ELSE <<>>)
       \o (IF Truthy(P(Fields_certificate))
           THEN _write_element("rating",
                               PyTuple(Item("value", P(Fields_certificate), <<>>)),
                               << <<"system", <<"B","B","F","C">> >> >>)
           ELSE <<>>)
       \o _write_element("category", P(Fields_film), <<>>)
       \o _write_element("category", P(Fields_genre), <<>>)
       \o <<EndElement("programme"), RawWrite("\n")>>

----------------------------------------------------------------------------
(* sd2xmltv.py: Files.write from g.startElement("programme") on. The body  *)
(* can raise part-way, so it is a list of stages run until one raises.     *)

\* sub in s
HasSub(s, sub) ==
    \E i \in 0..(Len(s) - Len(sub)) : SubSeq(s, i + 1, i + Len(sub)) = sub

\* str(n)
RECURSIVE IntStr(_)
IntStr(n) ==
    IF n < 0 THEN <<"-">> \o IntStr(0 - n)
    ELSE IF n < 10 THEN <<DigitChars[n + 1]>>
    ELSE Append(IntStr(n \div 10), DigitChars[(n % 10) + 1])

S_None == <<"N","o","n","e">>
S_movie == <<"m","o","v","i","e">>
S_Movie == <<"M","o","v","i","e">>

\* "{0}".format(d.get(key))
FormatGet(d, key) == IF key \in DOMAIN d THEN IntStr(d[key]) ELSE S_None

\* date.toordinal()
Ordinal(y, m, d) ==
    LET RECURSIVE before(_)
        before(k) == IF k = 0 THEN 0 ELSE DaysInMonth(y, k) + before(k - 1)
        py == y - 1
    IN 365 * py + (py \div 4) - (py \div 100) + (py \div 400) + before(m - 1) + d

Abs(n) == IF n < 0 THEN 0 - n ELSE n

\* film = entityType == "Movie" or "film" in showType or "movie" in showType
IsFilm(programme) ==
    LET showType == Lower(Get(programme, "showType", <<>>))
    IN \/ Get(programme, "entityType", <<>>) = S_Movie
       \/ HasSub(showType, S_film)
       \/ HasSub(showType, S_movie)

\* the body of "for mdv in md.values()" up to the season test: the st it builds
SeasonText(mdv) ==
    <<"s">> \o FormatGet(mdv, "season")
    \o (IF "totalSeasons" \in DOMAIN mdv THEN <<"/">> \o IntStr(mdv.totalSeasons) ELSE <<>>)
    \o (IF "episode" \in DOMAIN mdv
        THEN <<",", " ", "e">> \o FormatGet(mdv, "episode")
             \o (IF "totalEpisodes" \in DOMAIN mdv
                 THEN <<"/">> \o IntStr(mdv.totalEpisodes) ELSE <<>>)
        ELSE <<>>)

\* every mdv of programme.get("metadata", []), in loop order
RECURSIVE MetadataValues(_)
MetadataValues(metadata) ==
    IF metadata = <<>> THEN <<>> ELSE metadata[1] \o MetadataValues(Tail(metadata))

\* mdv.get("season") > 0 raises TypeError when the season is absent
SeasonTestRaises(mdv) == "season" \notin DOMAIN mdv

\* the metadata loop: [exc, new_series, subtitle]
RECURSIVE MetadataLoop(_, _, _)
MetadataLoop(mdvs, new_series, subtitle) ==
    IF mdvs = <<>> THEN [exc |-> "", new_series |-> new_series, subtitle |-> subtitle]
    ELSE IF SeasonTestRaises(mdvs[1])
    THEN [exc |-> "TypeError", new_series |-> new_series, subtitle |-> subtitle]
    ELSE MetadataLoop(Tail(mdvs),
                      new_series \/ ("episode" \in DOMAIN mdvs[1] /\ mdvs[1].episode = 1),
                      IF mdvs[1].season > 0
                      THEN Append(subtitle, SeasonText(mdvs[1])) ELSE subtitle)

\* {"en-GB": -2, "en": -1}.get(x["descriptionLanguage"], 0)
LanguageRank(x) ==
    IF x.descriptionLanguage = <<"e","n","-","G","B">> THEN 0 - 2
    ELSE IF x.descriptionLanguage = <<"e","n">> THEN 0 - 1
    ELSE 0

\* sorted(descriptions, key=LanguageRank): stable
RECURSIVE SortedDescriptions(_)
SortedDescriptions(ds) ==
    IF ds = <<>> THEN <<>>
    ELSE LET rest == SortedDescriptions(SubSeq(ds, 1, Len(ds) - 1))
             x == ds[Len(ds)]
             n == Cardinality({i \in 1..Len(rest) : LanguageRank(rest[i]) <= LanguageRank(x)})
         IN SubSeq(rest, 1, n) \o <<x>> \o SubSeq(rest, n + 1, Len(rest))

\* d.get(key) of a str-valued key, as a value for _write_element
GetStr(d, key) == IF key \in DOMAIN d THEN PyStr(d[key]) ELSE PyNone

\* a stage of the body: the calls it made, and the exception it raised if any
Stage(exc, out) == [exc |-> exc, out |-> out]

\* run the stages in order up to the first that raises
RECURSIVE RunStages(_)
RunStages(stages) ==
    IF stages = <<>> THEN Stage("", <<>>)
    ELSE IF stages[1].exc # "" THEN stages[1]
    ELSE LET rest == RunStages(Tail(stages))
         IN Stage(rest.exc, stages[1].out \o rest.out)

RECURSIVE Ratings(_)
Ratings(rs) ==
    IF rs = <<>> THEN <<>>
    ELSE _write_element("rating", PyTuple(Item("value", PyStr(rs[1].code), <<>>)),
                        << <<"system", rs[1].body>> >>)
         \o Ratings(Tail(rs))

RECURSIVE Genres(_)
Genres(gs) ==
    IF gs = <<>> THEN <<>>
    ELSE _write_element("category", PyStr(gs[1]), <<>>) \o Genres(Tail(gs))

\* the premiere block: if film and "originalAirDate" in programme: ...
Premiere(programme, film) ==
    IF ~(film /\ "originalAirDate" \in DOMAIN programme) THEN Stage("", <<>>)
    ELSE IF ~IntsOk(programme.originalAirDate, "-", 3) THEN Stage("ValueError", <<>>)
    ELSE LET ymd == Ints(programme.originalAirDate, "-")
             st == programme.start
         IN IF ~ValidDateTime(ymd[1], ymd[2], ymd[3], 0, 0, 0) THEN Stage("ValueError", <<>>)
            ELSE IF Abs(Ordinal(st.year, st.month, st.day) - Ordinal(ymd[1], ymd[2], ymd[3])) <= 2
            THEN Stage("", _write_element("premiere",
                                          IF "premiere" \in DOMAIN programme
                                          THEN PyBool(programme.premiere) ELSE PyNone, <<>>))
            ELSE Stage("", <<>>)

\* sd2xmltv Files.write from g.startElement("programme") on: [exc, out]
SdProgramme(id, programme, tz) ==
    LET film == IsFilm(programme)
        md == MetadataLoop(MetadataValues(Get(programme, "metadata", <<>>)), FALSE, <<>>)
        subtitle == md.subtitle \o (IF "episodeTitle150" \in DOMAIN programme
                                    THEN <<programme.episodeTitle150>> ELSE <<>>)
        descriptions ==
            SortedDescriptions(Get(Get(programme, "descriptions", <<>>), "description1000", <<>>))
    IN RunStages(<<
        Stage("", <<StartElement("programme",
                     << <<"channel", id>>,
                        <<"start", StrfStamp(AddSeconds(programme.start, tz * 3600))>>,
                        <<"stop", StrfStamp(AddSeconds(programme.stop, tz * 3600))>> >>)>>),
        Stage(md.exc, <<>>),
        IF "titles" \notin DOMAIN programme THEN Stage("KeyError", <<>>)
        ELSE IF programme.titles = <<>> THEN Stage("IndexError", <<>>)
        ELSE Stage("", _write_element("title", GetStr(programme.titles[1], "title120"), <<>>)),
        Stage("", IF subtitle # <<>>
                  THEN _write_element("sub-title", PyStr(Join(subtitle, <<":", " ">>)), <<>>)
                  ELSE <<>>),
        Stage("", IF descriptions # <<>>
                  THEN _write_element("desc", GetStr(descriptions[1], "description"), <<>>)
                  ELSE <<>>),
        Stage("", _write_element("credits", PyList(Get(programme, "cast", <<>>)), <<>>)),
        Stage("", _write_element("year", GetStr(Get(programme, "movie", <<>>), "year"), <<>>)),
        Premiere(programme, film),
        Stage("", _write_element("new", PyBool(md.new_series), <<>>)),
        Stage("", Ratings(Get(programme, "contentRating", <<>>))),
        Stage("", IF film THEN _write_element("category", PyStr(S_film), <<>>) ELSE <<>>),
        Stage("", _write_element("category", GetStr(programme, "episodeType"), <<>>)),
        Stage("", _write_element("category", GetStr(programme, "showType"), <<>>)),
        Stage("", Genres(Get(programme, "genres", <<>>))),
        Stage("", <<EndElement("programme"), RawWrite("\n")>>) >>)

----------------------------------------------------------------------------
(* Files.__init__, Files.write and Files.close as a whole.                 *)

\* the local calendar date on which Files is constructed
Today == DateTime(2014, 12, 31, 0, 0, 0)

\* self.now: local midnight; naive in rt2xmltv, tz.localize()d in sd2xmltv, where
\* every aware datetime is kept as its UTC fields (tz is the zone's offset in hours)
NowOf(f, tz) == IF f = "rt" THEN Today ELSE AddSeconds(Today, 0 - tz * 3600)

\* programme[Fields.start] / programme["start"]
StartOf(f, programme) == IF f = "rt" THEN At(programme, Fields_start).dt ELSE programme.start

StopOf(f, programme) == IF f = "rt" THEN At(programme, Fields_stop).dt ELSE programme.stop

\* self.files[key] = entry
DictSet(fs, entry) ==
    IF HasKey(fs, entry.key) THEN [fs EXCEPT ![KeyIndex(fs, entry.key)] = entry]
    ELSE Append(fs, entry)

\* the calls Files.write makes for the programme on an open (f, g): [exc, out]
ProgrammeCalls(f, id, programme, tz) ==
    IF f = "rt" THEN Stage("", RtProgramme(id, programme)) ELSE SdProgramme(id, programme, tz)

\* Files.write(filedate, id, programme): [exc, files, opened]
Files_write(f, fs, ops, today, startHour, tz, filedate0, id, programme) ==
    LET filedate == ShiftDay(filedate0, StartOf(f, programme), startHour)
    IN IF IsPast(filedate, today) THEN [exc |-> "", files |-> fs, opened |-> ops]
       ELSE
       LET open == MustOpen(fs, filedate)
           fs1 == IF open
                  THEN DictSet(fs, [key |-> filedate, name |-> FileName(filedate),
                                    out |-> Header(f), closed |-> FALSE])
                  ELSE fs
           ops1 == IF open THEN Append(ops, FileName(filedate)) ELSE ops
           i == KeyIndex(fs1, filedate)
           body == ProgrammeCalls(f, id, programme, tz)
       IN IF fs1[i].closed
          \* g.startElement writes to a closed file
          THEN [exc |-> "ValueError", files |-> fs1, opened |-> ops1]
          ELSE [exc |-> body.exc, files |-> [fs1 EXCEPT ![i].out = @ \o body.out],
                opened |-> ops1]

\* close() that writes the closing tags but never calls f.close()
FinalizeKeepsOpen(entry) ==
    [entry EXCEPT !.out = @ \o <<EndElement("tv"), EndDocument>>]

\* what close() does to one (f, g)
Finalize(entry) ==
    [entry EXCEPT !.out = @ \o <<EndElement("tv"), EndDocument>>, !.closed = TRUE]

\* Files.close(): for (f, g) in self.files.values(): ...; [exc, files]
RECURSIVE CloseFrom(_, _)
CloseFrom(fs, i) ==
    IF i > Len(fs) THEN [exc |-> "", files |-> fs]
    ELSE IF fs[i].closed THEN [exc |-> "ValueError", files |-> fs]
    ELSE CloseFrom([fs EXCEPT ![i] = Finalize(fs[i])], i + 1)

Files_close(fs) == CloseFrom(fs, 1)

----------------------------------------------------------------------------
(* Inputs of rt2xmltv: downloaded lines.                                   *)

S_false == <<"f","a","l","s","e">>

\* the 23 fields of a line, in Fields order
RtFields(title, sub_title, episode, year, director, cast, flags, star_rating, certificate, genre, desc, date, start, stop) ==
    <<title, sub_title, episode, year, director, cast,
      flags.premiere, flags.film, S_false, flags.subtitles, flags.widescreen,
      flags.new_series, S_false, flags.black_and_white, star_rating, certificate,
      genre, desc, S_false, date, start, stop, <<"6","0">>>>

NoFlags == [premiere |-> S_false, film |-> S_false, subtitles |-> S_false,
            widescreen |-> S_false, new_series |-> S_false, black_and_white |-> S_false]

\* a line with only title, film, genre, date and times filled in
PlainLine(title, film, genre, date, start, stop) ==
    Join(RtFields(title, <<>>, <<>>, <<>>, <<>>, <<>>, [NoFlags EXCEPT !.film = film],
                  <<>>, <<>>, genre, <<>>, date, start, stop), <<"~">>)

\* yesterday, today, tomorrow
RtDates == {<<"3","0","/","1","2","/","2","0","1","4">>, <<"3","1","/","1","2","/","2","0","1","4">>, <<"0","1","/","0","1","/","2","0","1","5">>}
RtStarts == {<<"0","5",":","5","9">>, <<"0","6",":","0","0">>, <<"2","3",":","5","0">>}
RtStops == {<<"0","0",":","1","0">>, <<"2","3",":","5","0">>}

\* every date and time combination, no film flag, no genre, and the end of
\* February of a leap year: overnight out of it, before start_hour into it
TimeLines ==
    {PlainLine(<<"N","e","w","s">>, S_false, <<>>, d, s, e) : d \in RtDates, s \in RtStarts, e \in RtStops}
    \cup {PlainLine(<<"N","e","w","s">>, S_false, <<>>, <<"2","9","/","0","2","/","2","0","1","6">>, <<"2","3",":","5","0">>, <<"0","0",":","1","0">>),
          PlainLine(<<"N","e","w","s">>, S_false, <<>>, <<"0","1","/","0","3","/","2","0","1","6">>, <<"0","5",":","5","9">>, <<"2","3",":","5","0">>)}

RtGenres == {<<>>, S_Film, S_film, <<"F","I","L","M">>, <<"N","o"," ","G","e","n","r","e">>, <<"N","O"," ","G","E","N","R","E">>, <<"D","r","a","m","a">>}

\* every film flag and genre combination, tonight at 20:00
GenreLines ==
    {PlainLine(<<"C","a","s","a","b","l","a","n","c","a">>, f, g, <<"3","1","/","1","2","/","2","0","1","4">>, <<"2","0",":","0","0">>, <<"2","1",":","0","0">>) : f \in {S_true, S_false}, g \in RtGenres}

\* a line with every optional field filled in
RichLine ==
    Join(RtFields(<<"C","a","s","a","b","l","a","n","c","a">>, <<"P","a","r","t"," ","1">>, <<"1","/","2">>, <<"1","9","4","2">>, <<"M","i","c","h","a","e","l"," ","C","u","r","t","i","z">>, <<"R","i","c","k","*","H","u","m","p","h","r","e","y"," ","B","o","g","a","r","t","|","I","l","s","a","*","I","n","g","r","i","d"," ","B","e","r","g","m","a","n","|","D","o","o","l","e","y"," ","W","i","l","s","o","n">>,
                  [premiere |-> S_true, film |-> S_true, subtitles |-> S_true,
                   widescreen |-> S_true, new_series |-> S_true, black_and_white |-> S_true],
                  <<"5">>, <<"P","G">>, <<"D","r","a","m","a">>, <<"A"," ","c","l","a","s","s","i","c">>, <<"0","1","/","0","1","/","2","0","1","5">>, <<"2","0",":","0","0">>, <<"2","1",":","0","0">>), <<"~">>)

\* lines that make Programmes.__iter__ raise
BadLines ==
    { \* 22 fields: the line is cut short
      Join(SubSeq(RtFields(<<"N","e","w","s">>, <<>>, <<>>, <<>>, <<>>, <<>>, NoFlags, <<>>, <<>>, <<>>,
                           <<>>, <<"3","1","/","1","2","/","2","0","1","4">>, <<"2","0",":","0","0">>, <<"2","1",":","0","0">>), 1, 22), <<"~">>),
      \* 24 fields: a "~" inside the title
      PlainLine(<<"A","~","B">>, S_false, <<>>, <<"3","1","/","1","2","/","2","0","1","4">>, <<"2","0",":","0","0">>, <<"2","1",":","0","0">>),
      \* 23 fields, no such date
      PlainLine(<<"N","e","w","s">>, S_false, <<>>, <<"3","0","/","0","2","/","2","0","1","5">>, <<"2","0",":","0","0">>, <<"2","1",":","0","0">>),
      \* 23 fields, a time that is not HH:MM
      PlainLine(<<"N","e","w","s">>, S_false, <<>>, <<"3","1","/","1","2","/","2","0","1","4">>, <<"8","p","m">>, <<"2","1",":","0","0">>) }

RtLines == TimeLines \cup GenreLines \cup {RichLine} \cup BadLines

----------------------------------------------------------------------------
(* Inputs of sd2xmltv: schedule entries joined with their program data.    *)

SdTitles == << [title120 |-> <<"N","e","w","s">>] >>

SdPlain == [titles |-> SdTitles]

SdFilm ==
    [titles |-> << [title120 |-> <<"C","a","s","a","b","l","a","n","c","a">>] >>,
     entityType |-> S_Movie,
     showType |-> <<"F","e","a","t","u","r","e"," ","F","i","l","m">>,
     movie |-> [year |-> <<"1","9","4","2">>],
     originalAirDate |-> <<"2","0","1","4","-","1","2","-","3","0">>,
     premiere |-> TRUE,
     descriptions |-> [description1000 |->
        << [descriptionLanguage |-> <<"f","r">>, description |-> <<"U","n"," ","c","l","a","s","s","i","q","u","e">>],
           [descriptionLanguage |-> <<"e","n">>, description |-> <<"A"," ","c","l","a","s","s","i","c">>] >>],
     cast |-> << [billingOrder |-> <<"0","2">>, role |-> <<"A","c","t","o","r">>, name |-> <<"I","n","g","r","i","d"," ","B","e","r","g","m","a","n">>,
                  characterName |-> <<"I","l","s","a">>],
                 [billingOrder |-> <<"0","1">>, role |-> <<"A","c","t","o","r">>, name |-> <<"H","u","m","p","h","r","e","y"," ","B","o","g","a","r","t">>,
                  characterName |-> <<"R","i","c","k">>] >>,
     crew |-> << [billingOrder |-> <<"0","1">>, role |-> <<"D","i","r","e","c","t","o","r">>, name |-> <<"M","i","c","h","a","e","l"," ","C","u","r","t","i","z">>],
                 [billingOrder |-> <<"0","2">>, role |-> <<"K","e","y"," ","G","r","i","p">>, name |-> <<"A"," ","N"," ","O","t","h","e","r">>] >>,
     contentRating |-> << [code |-> <<"P","G">>, body |-> <<"B","B","F","C">>] >>,
     genres |-> << <<"D","r","a","m","a">>, <<"R","o","m","a","n","c","e">> >>]

SdSeries ==
    [titles |-> << [title120 |-> <<"Q","u","i","z">>] >>,
     showType |-> <<"S","e","r","i","e","s">>,
     episodeTitle150 |-> <<"P","i","l","o","t">>,
     metadata |-> << <<[season |-> 2, totalSeasons |-> 3, episode |-> 1, totalEpisodes |-> 10]>> >>,
     cast |-> << [billingOrder |-> <<"0","1">>, role |-> <<"H","o","s","t">>, name |-> <<"A"," ","H","o","s","t">>],
                 [billingOrder |-> <<"0","2">>, role |-> <<"C","o","n","t","e","s","t","a","n","t">>, name |-> <<"A"," ","P","l","a","y","e","r">>],
                 [billingOrder |-> <<"0","3">>, role |-> <<"G","u","e","s","t">>, name |-> <<"A"," ","G","u","e","s","t">>] >>,
     crew |-> << [billingOrder |-> <<"0","1">>, role |-> <<"V","o","i","c","e">>, name |-> <<"A"," ","V","o","i","c","e">>],
                 [billingOrder |-> <<"0","1">>, role |-> <<"A","n","c","h","o","r">>, name |-> <<"A","n"," ","A","n","c","h","o","r">>],
                 [billingOrder |-> <<"0","4">>, role |-> <<"R","u","n","n","e","r">>, name |-> <<"A"," ","R","u","n","n","e","r">>] >>]

\* a metadata entry without a season
SdNoSeason ==
    [titles |-> SdTitles, metadata |-> << <<[episode |-> 3]>> >>]

SdAirTimes == {<<"2","0","1","4","-","1","2","-","3","0","T","2","0",":","0","0",":","0","0","Z">>, <<"2","0","1","4","-","1","2","-","3","1","T","0","5",":","5","9",":","0","0","Z">>, <<"2","0","1","4","-","1","2","-","3","1","T","2","0",":","0","0",":","0","0","Z">>,
               <<"2","0","1","4","-","1","2","-","3","1","T","2","1",":","0","0",":","3","0","Z">>, <<"2","0","1","5","-","0","1","-","0","1","T","0","3",":","0","0",":","0","0","Z">>}

SdPrograms ==
    {[airDateTime |-> a, duration |-> 1800, data |-> SdPlain] : a \in SdAirTimes}
    \cup {[airDateTime |-> <<"2","0","1","4","-","1","2","-","3","1","T","2","0",":","0","0",":","0","0","Z">>, duration |-> 21600, data |-> d] :
            d \in {SdFilm, SdSeries, SdNoSeason}}
    \* an airDateTime that strptime rejects
    \cup {[airDateTime |-> <<"2","0","1","4","-","1","2","-","3","1"," ","2","0",":","0","0">>, duration |-> 1800, data |-> SdPlain]}

\* offsets from UTC, in hours, of the local zones a run is modelled in
TzOffsets == {0, 1, 0 - 5}

\* config["files"]["start_hour"]
StartHours == {6, 12}

Inputs(f) == IF f = "rt" THEN RtLines ELSE SdPrograms

\* the loop body applied to every input, evaluated once
RtIterResults == [ln \in RtLines |-> RtIterBody(ln)]

SdIterResults == [program \in SdPrograms |-> SdIterBody(program)]

\* the loop body of Programmes.__iter__ of either program
IterBody(f, ln) == IF f = "rt" THEN RtIterResults[ln] ELSE SdIterResults[ln]

----------------------------------------------------------------------------
(* The run of main(): for item in programmes: item.write(files), then      *)
(* files.close(). pc is the position: "iter" (the generator is resumed),   *)
(* "write" (files.write is called with what it yielded), "close", "done",  *)
(* "aborted" (an exception left main()).                                   *)

NoValue == <<>>

Init ==
    /\ fmt \in {"rt", "sd"}
    /\ start_hour \in StartHours
    /\ tzoff \in (IF fmt = "rt" THEN {0} ELSE TzOffsets)
    /\ now = NowOf(fmt, tzoff)
    /\ pc = "iter"
    /\ chan = 1
    /\ nread = 0
    /\ line = NoValue
    /\ yielded = NoValue
    /\ files = <<>>
    /\ opened = <<>>
    /\ err = ""

\* an exception handled by finalizing the files, as a "finally: files.close()" would
OnRaiseClose(exc) == [pc |-> "close", err |-> exc]

\* where an exception raised under Programmes.write goes: it is re-raised and leaves main()
OnRaise(exc) == [pc |-> "aborted", err |-> exc]

\* "for line in self.lines" takes a line and runs the loop body up to its raise or yield
IterNext ==
    /\ pc = "iter"
    /\ nread < MaxRecords
    /\ \E ln \in Inputs(fmt) :
         LET r == IterBody(fmt, ln)
         IN /\ line' = ln
            /\ nread' = nread + 1
            /\ IF r.exc # ""
               THEN /\ pc' = OnRaise(r.exc).pc
                    /\ err' = OnRaise(r.exc).err
                    /\ yielded' = NoValue
               ELSE /\ pc' = "write"
                    /\ err' = err
                    /\ yielded' = r
    /\ UNCHANGED <<fmt, start_hour, tzoff, now, chan, files, opened>>

\* the lines of this channel are exhausted: the next Programmes item, or files.close()
IterStop ==
    /\ pc = "iter"
    /\ IF chan < Len(Channels(fmt))
       THEN chan' = chan + 1 /\ pc' = pc
       ELSE chan' = chan /\ pc' = "close"
    /\ line' = NoValue
    /\ UNCHANGED <<fmt, start_hour, tzoff, now, nread, yielded, files, opened, err>>

\* files.write(filedate, id, programme) with what the generator yielded
FilesWrite ==
    /\ pc = "write"
    /\ LET r == Files_write(fmt, files, opened, now, start_hour, tzoff,
                            yielded.filedate, Channels(fmt)[chan].id, yielded.data)
       IN /\ files' = r.files
          /\ opened' = r.opened
          /\ IF r.exc # ""
             THEN pc' = OnRaise(r.exc).pc /\ err' = OnRaise(r.exc).err
             ELSE pc' = "iter" /\ err' = err
    /\ UNCHANGED <<fmt, start_hour, tzoff, now, chan, nread, line, yielded>>

\* files.close() at the end of main()
FilesClose ==
    /\ pc = "close"
    /\ LET r == Files_close(files)
       IN /\ files' = r.files
          /\ IF r.exc # ""
             THEN pc' = OnRaise(r.exc).pc /\ err' = OnRaise(r.exc).err
             ELSE pc' = "done" /\ err' = err
    /\ UNCHANGED <<fmt, start_hour, tzoff, now, chan, nread, line, yielded, opened>>

Next == IterNext \/ IterStop \/ FilesWrite \/ FilesClose

Spec == Init /\ [][Next]_vars

----------------------------------------------------------------------------
(* Files as a class of the module, called by any client: write and close   *)
(* in any order. pc is "api" until close() is first called, "closed" when  *)
(* close() was the last call, "reused" once write() was called after it.   *)
(* An exception goes to the client, which may go on calling.               *)

\* what the client writes: a past day, today, tomorrow
ApiInputs(f) ==
    IF f = "rt"
    THEN {PlainLine(<<"N","e","w","s">>, S_false, <<>>, d, <<"0","6",":","0","0">>, <<"2","3",":","5","0">>) : d \in RtDates}
    ELSE {[airDateTime |-> a, duration |-> 1800, data |-> SdPlain] :
            a \in {<<"2","0","1","4","-","1","2","-","3","0","T","2","0",":","0","0",":","0","0","Z">>, <<"2","0","1","4","-","1","2","-","3","1","T","2","0",":","0","0",":","0","0","Z">>, <<"2","0","1","5","-","0","1","-","0","1","T","0","3",":","0","0",":","0","0","Z">>}}

InitFiles ==
    /\ fmt \in {"rt", "sd"}
    /\ start_hour \in StartHours
    /\ tzoff \in (IF fmt = "rt" THEN {0} ELSE TzOffsets)
    /\ now = NowOf(fmt, tzoff)
    /\ pc = "api"
    /\ chan = 1
    /\ nread = 0
    /\ line = NoValue
    /\ yielded = NoValue
    /\ files = <<>>
    /\ opened = <<>>
    /\ err = ""

\* files.write(filedate, id, programme) with a programme of some channel
ApiWrite ==
    /\ pc \in {"api", "closed", "reused"}
    /\ nread < MaxCalls
    /\ \E ln \in ApiInputs(fmt), c \in 1..Len(Channels(fmt)) :
         LET y == IterBody(fmt, ln)
             r == Files_write(fmt, files, opened, now, start_hour, tzoff,
                              y.filedate, Channels(fmt)[c].id, y.data)
         IN /\ line' = ln
            /\ chan' = c
            /\ yielded' = y
            /\ files' = r.files
            /\ opened' = r.opened
            /\ err' = r.exc
    /\ pc' = IF pc = "api" THEN "api" ELSE "reused"
    /\ nread' = nread + 1
    /\ UNCHANGED <<fmt, start_hour, tzoff, now>>

\* files.close()
ApiClose ==
    /\ pc \in {"api", "closed", "reused"}
    /\ nread < MaxCalls
    /\ LET r == Files_close(files)
       IN files' = r.files /\ err' = r.exc
    /\ pc' = "closed"
    /\ nread' = nread + 1
    /\ UNCHANGED <<fmt, start_hour, tzoff, now, chan, line, yielded, opened>>

NextFiles == ApiWrite \/ ApiClose

SpecFiles == InitFiles /\ [][NextFiles]_vars

----------------------------------------------------------------------------
(* One legacy record through Programmes.__iter__ and Files.write, then     *)
(* files.close(): the record is drawn from every combination of present    *)
(* and absent optional fields.                                             *)

\* a field that is filled in or empty
Opt(present, text) == IF present THEN text ELSE <<>>

Flag(b) == IF b THEN S_true ELSE S_false

\* the cast field: empty, two character*actor pairs, separators only
ElementCasts == {<<>>, <<"R","i","c","k","*","H","u","m","p","h","r","e","y"," ","B","o","g","a","r","t","|","I","l","s","a","*","I","n","g","r","i","d"," ","B","e","r","g","m","a","n">>, <<",">>}

\* tonight's lines at 20:00 with every combination of the optional fields
ElementLines ==
    {Join(RtFields(Opt(texts, <<"C","a","s","a","b","l","a","n","c","a">>), Opt(sub, <<"P","a","r","t"," ","1">>), Opt(ep, <<"1","/","2">>),
                   Opt(texts, <<"1","9","4","2">>), Opt(director, <<"M","i","c","h","a","e","l"," ","C","u","r","t","i","z">>), cast,
                   [premiere |-> Flag(flags), film |-> Flag(flags), subtitles |-> Flag(flags),
                    widescreen |-> Flag(wide), new_series |-> Flag(flags),
                    black_and_white |-> Flag(bw)],
                   Opt(texts, <<"5">>), Opt(texts, <<"P","G">>), Opt(texts, <<"D","r","a","m","a">>),
                   Opt(texts, <<"A"," ","c","l","a","s","s","i","c">>), <<"3","1","/","1","2","/","2","0","1","4">>, <<"2","0",":","0","0">>, <<"2","1",":","0","0">>), <<"~">>) :
        texts \in BOOLEAN, sub \in BOOLEAN, ep \in BOOLEAN, director \in BOOLEAN,
        cast \in ElementCasts, wide \in BOOLEAN, bw \in BOOLEAN, flags \in BOOLEAN}

InitElements ==
    /\ fmt = "rt"
    /\ start_hour \in StartHours
    /\ tzoff = 0
    /\ now = NowOf(fmt, tzoff)
    /\ pc = "iter"
    /\ chan \in 1..Len(Channels(fmt))
    /\ nread = 0
    /\ line \in ElementLines
    /\ yielded = NoValue
    /\ files = <<>>
    /\ opened = <<>>
    /\ err = ""

\* the loop body of Programmes.__iter__ on the line
ElementsIter ==
    /\ pc = "iter"
    /\ nread = 0
    /\ LET r == RtIterBody(line)
       IN IF r.exc # ""
          THEN pc' = OnRaise(r.exc).pc /\ err' = OnRaise(r.exc).err /\ yielded' = NoValue
          ELSE pc' = "write" /\ err' = err /\ yielded' = r
    /\ nread' = 1
    /\ UNCHANGED <<fmt, start_hour, tzoff, now, chan, line, files, opened>>

\* files.write(filedate, id, programme) with what the generator yielded
ElementsWrite ==
    /\ pc = "write"
    /\ LET r == Files_write(fmt, files, opened, now, start_hour, tzoff,
                            yielded.filedate, Channels(fmt)[chan].id, yielded.data)
       IN /\ files' = r.files
          /\ opened' = r.opened
          /\ IF r.exc # ""
             THEN pc' = OnRaise(r.exc).pc /\ err' = OnRaise(r.exc).err
             ELSE pc' = "close" /\ err' = err
    /\ UNCHANGED <<fmt, start_hour, tzoff, now, chan, nread, line, yielded>>

\* files.close()
ElementsClose ==
    /\ pc = "close"
    /\ LET r == Files_close(files)
       IN /\ files' = r.files
          /\ IF r.exc # ""
             THEN pc' = OnRaise(r.exc).pc /\ err' = OnRaise(r.exc).err
             ELSE pc' = "done" /\ err' = err
    /\ UNCHANGED <<fmt, start_hour, tzoff, now, chan, nread, line, yielded, opened>>

NextElements == ElementsIter \/ ElementsWrite \/ ElementsClose

SpecElements == InitElements /\ [][NextElements]_vars

----------------------------------------------------------------------------
(* Vocabulary of the properties: what a reader of the input line and of    *)
(* the output files sees, computed from their text.                        *)

\* seconds from 1 January 2000 to dt
Instant(dt) ==
    (Ordinal(dt.year, dt.month, dt.day) - Ordinal(2000, 1, 1)) * 86400
    + dt.hour * 3600 + dt.minute * 60 + dt.second

\* the fields of the legacy line being processed, as text
RawField(field) == Split(line, "~")[field + 1]

\* day number of the DD/MM/YYYY date field of the line
RawDateOrdinal ==
    LET dmy == Ints(RawField(Fields_date), "/") IN Ordinal(dmy[3], dmy[2], dmy[1])

\* minutes into the day of an HH:MM field of the line
RawMinutes(field) == LET hm == Ints(RawField(field), ":") IN hm[1] * 60 + hm[2]

\* the programme the legacy generator has just yielded
YieldedStart == At(yielded.data, Fields_start).dt
YieldedStop == At(yielded.data, Fields_stop).dt

IsProgrammeStart(tok) == tok.t = "start" /\ tok.name = "programme"

\* value of attribute name of a start tag
Attr(tok, name) == tok.attrs[CHOOSE k \in 1..Len(tok.attrs) : tok.attrs[k][1] = name][2]

\* day number and hour of a YYYYMMDDHHMMSS stamp
StampOrdinal(stamp) ==
    Ordinal(IntOf(SubSeq(stamp, 1, 4)), IntOf(SubSeq(stamp, 5, 6)), IntOf(SubSeq(stamp, 7, 8)))
StampHour(stamp) == IntOf(SubSeq(stamp, 9, 10))

\* day number of the date in a file name tv-YYYYMMDD.xmltv
NameOrdinal(name) == StampOrdinal(SubSeq(name, 4, 11))

----------------------------------------------------------------------------
(* The claims. *)

\* C1: every legacy record with a valid date and valid times, equal start and stop
\* times included, is yielded by Programmes.__iter__ with stop strictly after start.
\* The code moves stop to the next day only when stop < start, so a record whose
\* start and stop times are equal is yielded with stop = start.
C1_StopAfterStart ==
    (fmt = "rt" /\ pc = "write") => Instant(YieldedStop) > Instant(YieldedStart)

\* C2: overnight rule. start is the record's date at the start time and is never
\* moved; stop is the stop time on the day after the record's date when the stop
\* time-of-day is earlier than the start time-of-day, and on the record's date
\* otherwise.
C2_OvernightRule ==
    (fmt = "rt" /\ pc = "write") =>
        /\ Ordinal(YieldedStart.year, YieldedStart.month, YieldedStart.day) = RawDateOrdinal
        /\ YieldedStart.hour * 60 + YieldedStart.minute = RawMinutes(Fields_start)
        /\ YieldedStop.hour * 60 + YieldedStop.minute = RawMinutes(Fields_stop)
        /\ Ordinal(YieldedStop.year, YieldedStop.month, YieldedStop.day)
             = RawDateOrdinal
               + (IF RawMinutes(Fields_stop) < RawMinutes(Fields_start) THEN 1 ELSE 0)

\* C2 witness: 31/12/2014 23:50-00:10 has been yielded with stop on 1 January 2015.
C2_Witness ==
    /\ fmt = "rt" /\ pc = "write"
    /\ RawField(Fields_date) = <<"3","1","/","1","2","/","2","0","1","4">>
    /\ RawField(Fields_start) = <<"2","3",":","5","0">>
    /\ RawField(Fields_stop) = <<"0","0",":","1","0">>
    /\ YieldedStart = DateTime(2014, 12, 31, 23, 50, 0)
    /\ YieldedStop = DateTime(2015, 1, 1, 0, 10, 0)

\* C3: every legacy programme element is in the file of its broadcast day: the
\* date of its start, one day earlier if and only if the hour of its start is
\* below start_hour.
C3_BroadcastDay ==
    fmt = "rt" =>
        \A i \in 1..Len(files) : \A j \in 1..Len(files[i].out) :
            LET tok == files[i].out[j]
            IN IsProgrammeStart(tok) =>
                 NameOrdinal(files[i].name)
                   = StampOrdinal(Attr(tok, "start"))
                     - (IF StampHour(Attr(tok, "start")) < start_hour THEN 1 ELSE 0)

\* C3 witness: with start_hour = 6, a programme starting 05:59 on 1 January 2015 is
\* in tv-20141231.xmltv and one starting 06:00 that day is in tv-20150101.xmltv.
C3_Witness ==
    /\ fmt = "rt" /\ start_hour = 6
    /\ \E i \in 1..Len(files) : \E j \in 1..Len(files[i].out) :
         /\ files[i].name = <<"t","v","-","2","0","1","4","1","2","3","1",".","x","m","l","t","v">>
         /\ IsProgrammeStart(files[i].out[j])
         /\ SubSeq(Attr(files[i].out[j], "start"), 1, 12) = <<"2","0","1","5","0","1","0","1","0","5","5","9">>
    /\ \E i \in 1..Len(files) : \E j \in 1..Len(files[i].out) :
         /\ files[i].name = <<"t","v","-","2","0","1","5","0","1","0","1",".","x","m","l","t","v">>
         /\ IsProgrammeStart(files[i].out[j])
         /\ SubSeq(Attr(files[i].out[j], "start"), 1, 12) = <<"2","0","1","5","0","1","0","1","0","6","0","0">>


\* number of programme start tags written to a stream / to all streams
ProgrammeCount(out) == Cardinality({j \in 1..Len(out) : IsProgrammeStart(out[j])})

RECURSIVE TotalProgrammes(_)
TotalProgrammes(fs) ==
    IF fs = <<>> THEN 0 ELSE ProgrammeCount(fs[1].out) + TotalProgrammes(Tail(fs))

\* the instant of the broadcast day of the write at hand: the filedate argument,
\* a day earlier when the hour of start is below start_hour
WriteDayInstant ==
    Instant(yielded.filedate)
    - (IF StartOf(fmt, yielded.data).hour < start_hour THEN 86400 ELSE 0)

C5_OneStreamPerDay ==
    \A i, j \in 1..Len(opened) : i # j => opened[i] # opened[j]

\* what the head of a created stream must be: prologue, root element, then one
\* declaration per configured channel, in configuration order
HeadOk(f, out) ==
    LET cs == Channels(f)
        n == Len(cs)
    IN /\ Len(out) >= 4 + 6 * n
       /\ out[1].t = "startDocument"
       /\ out[2].t = "raw"
       /\ out[3].t = "start" /\ out[3].name = "tv"
       /\ out[4].t = "raw"
       /\ \A k \in 1..n :
            LET b == 4 + 6 * (k - 1)
            IN /\ out[b + 1] = StartElement("channel", << <<"id", cs[k].id>> >>)
               /\ out[b + 2] = StartElement("display-name", <<>>)
               /\ out[b + 3] = Characters(IF "disp" \in DOMAIN cs[k] THEN cs[k].disp
                                          ELSE cs[k].name)
               /\ out[b + 4] = EndElement("display-name")
               /\ out[b + 5] = EndElement("channel")
               /\ out[b + 6].t = "raw"
       /\ \A j \in (4 + 6 * n + 1)..Len(out) :
            ~(out[j].t = "start" /\ out[j].name \in {"channel", "tv"})
       /\ \A j \in 1..(4 + 6 * n) : ~IsProgrammeStart(out[j])

\* C6: every output stream starts with the prologue and the root tv element, then
\* exactly one channel declaration per configured channel in configuration order
\* (display-name falling back to the name), and every programme element comes after
\* them, whichever channel's programme created the file.
C6_HeaderFirst ==
    \A i \in 1..Len(files) : HeadOk(fmt, files[i].out)

\* C6 witness: a file was created by a programme of the second configured channel.
C6_Witness ==
    \E i \in 1..Len(files) :
        LET out == files[i].out
            first == CHOOSE j \in 1..Len(out) :
                        IsProgrammeStart(out[j]) /\ \A k \in 1..(j - 1) : ~IsProgrammeStart(out[k])
        IN /\ ProgrammeCount(out) > 0
           /\ Attr(out[first], "channel") = S_itv


\* the closing root element has been written to a stream exactly once, last, and
\* its handle released
Finalized(entry) ==
    LET out == entry.out
    IN /\ entry.closed
       /\ Cardinality({j \in 1..Len(out) : out[j] = EndElement("tv")}) = 1
       /\ Cardinality({j \in 1..Len(out) : out[j] = EndDocument}) = 1
       /\ Len(out) >= 2
       /\ out[Len(out) - 1] = EndElement("tv")
       /\ out[Len(out)] = EndDocument

C8_AbortNotFinalized ==
    [][ /\ err' # "" =>
             /\ pc' = "aborted"
             /\ \A i \in 1..Len(files') :
                  /\ ~files'[i].closed
                  /\ \A j \in 1..Len(files'[i].out) : files'[i].out[j] # EndElement("tv")
        /\ (err = "" /\ err' # "") =>
             \A i \in 1..Len(files) :
                 SubSeq(files'[i].out, 1, Len(files[i].out)) = files[i].out
        /\ err # "" => UNCHANGED <<files, opened, chan, nread>> ]_vars

\* C8 witness: the run aborted on a malformed record of the first channel after a
\* programme had been written; the file holds it and is not finalized.
C8_Witness ==
    /\ pc = "aborted" /\ err = "Exception" /\ chan = 1
    /\ Len(files) = 1
    /\ ProgrammeCount(files[1].out) = 1
    /\ ~files[1].closed

\* number of fields splitting a line on "~" yields
FieldCount(ln) == Cardinality({i \in 1..Len(ln) : ln[i] = "~"}) + 1

\* C9: a legacy line fails the arity check, raising Exception, exactly when
\* splitting it on "~" does not yield 23 fields; the failing record adds nothing to
\* any file and opens none, and what earlier records wrote stays.
C9_ArityCheck ==
    [][ /\ (fmt = "rt" /\ line' # NoValue) => (FieldCount(line') # 23 <=> err' = "Exception")
        /\ (err = "" /\ err' = "Exception") => (files' = files /\ opened' = opened) ]_vars

\* C9 witness: a 24-field line has raised after an earlier record was written.
C9_Witness ==
    /\ fmt = "rt" /\ pc = "aborted" /\ err = "Exception"
    /\ FieldCount(line) = 24
    /\ TotalProgrammes(files) = 1

\* the text of the category elements of a programme, in order
CategoryTexts(out) ==
    LET at == {j \in 1..Len(out) : out[j].t = "start" /\ out[j].name = "category"}
    IN [k \in 1..Cardinality(at) |->
          out[(CHOOSE j \in at : Cardinality({i \in at : i < j}) = k - 1) + 1].text]

\* the categories Files.write emits for the programme just yielded
YieldedCategories ==
    CategoryTexts(ProgrammeCalls(fmt, Channels(fmt)[chan].id, yielded.data, tzoff).out)

FilmSpellings == {S_Film, S_film, <<"F","I","L","M">>}
NoGenreSpellings == {<<"N","o"," ","G","e","n","r","e">>, <<"N","O"," ","G","E","N","R","E">>, S_no_genre}

\* C10: for a legacy record, film=true with genre "film" in any letter case gives
\* the single category "Film"; genre "no genre" in any letter case gives no genre
\* category, film or not; film=true with any other non-empty genre gives "Film"
\* and then the genre.
C10_FilmGenre ==
    (fmt = "rt" /\ pc = "write") =>
        LET film == RawField(Fields_film) = S_true
            genre == RawField(Fields_genre)
        IN /\ (film /\ genre \in FilmSpellings) => YieldedCategories = <<S_Film>>
           /\ genre \in NoGenreSpellings
                => YieldedCategories = (IF film THEN <<S_Film>> ELSE <<>>)
           /\ (film /\ genre # <<>> /\ genre \notin FilmSpellings \cup NoGenreSpellings)
                => YieldedCategories = <<S_Film, genre>>

\* C10 witness: a record with film=true and genre "FILM" has been yielded and is
\* written with the one category "Film".
C10_Witness ==
    /\ fmt = "rt" /\ pc = "write"
    /\ RawField(Fields_film) = S_true
    /\ RawField(Fields_genre) = <<"F","I","L","M">>
    /\ YieldedCategories = <<S_Film>>


\* the role table as claimed: voice to actor, host and anchor to presenter,
\* guest and contestant to guest
ClaimedRole(role) ==
    LET r == Lower(role)
    IN IF r = S_voice THEN S_actor
       ELSE IF r \in {S_host, S_anchor} THEN S_presenter
       ELSE IF r \in {S_guest, <<"c","o","n","t","e","s","t","a","n","t">>} THEN S_guest
       ELSE r

\* the credits the role table gives the cast and crew of a program: the entries in
\* (billingOrder, role, name) order of the original roles, those with a recognised
\* mapped role kept
ClaimedCredits(data) ==
    LET Kept(member) == ClaimedRole(member.role) \in CreditRoles
        kept == SelectSeq(SortedMembers(Get(data, "cast", <<>>) \o Get(data, "crew", <<>>)),
                          Kept)
    IN [i \in 1..Len(kept) |->
          Item(RoleElement(ClaimedRole(kept[i].role)), PyStr(MemberName(kept[i])), <<>>)]

\* C11: the credits of a schedule-API programme are its cast and crew entries in
\* (billingOrder, role, name) order of the original roles, each under its role
\* lower-cased and mapped by the role table (contestant to guest included), an
\* entry being dropped exactly when its mapped role is not a credit role.
\* The code's table spells the role "contestent", so a Contestant is dropped.
C11_RoleTable ==
    (fmt = "sd" /\ pc = "write" /\ ("cast" \in DOMAIN line.data \/ "crew" \in DOMAIN line.data))
        => yielded.data.cast = ClaimedCredits(line.data)


\* number of programme end tags written to all streams
RECURSIVE TotalProgrammeEnds(_)
TotalProgrammeEnds(fs) ==
    IF fs = <<>> THEN 0
    ELSE Cardinality({j \in 1..Len(fs[1].out) : fs[1].out[j] = EndElement("programme")})
         + TotalProgrammeEnds(Tail(fs))

\* C12: writing a record that passed parsing raises nothing, whatever optional
\* fields it lacks, and for a day that is not past its programme element is
\* written whole.
\* A schedule-API metadata entry without a season makes Files.write raise
\* TypeError after the programme start tag and before any child or the end tag.
C12_NoNewFatalError ==
    [][ pc = "write" =>
          /\ err' = ""
          /\ pc' = "iter"
          /\ WriteDayInstant >= Instant(now)
               => /\ TotalProgrammes(files') = TotalProgrammes(files) + 1
                  /\ TotalProgrammeEnds(files') = TotalProgrammeEnds(files) + 1 ]_vars


\* the tokens between the start and the end tag of the one programme of a stream
ProgrammeChildren(out) ==
    LET first == CHOOSE j \in 1..Len(out) : IsProgrammeStart(out[j])
        last == CHOOSE j \in 1..Len(out) : out[j] = EndElement("programme")
    IN SubSeq(out, first + 1, last - 1)

\* the positions of the start tags that are not nested in another element
TopLevel(toks) ==
    {j \in 1..Len(toks) :
        /\ toks[j].t = "start"
        /\ Cardinality({i \in 1..(j - 1) : toks[i].t = "start"})
             = Cardinality({i \in 1..(j - 1) : toks[i].t = "end"})}

\* the names of the children of a programme element, in order
ChildNames(toks) ==
    LET at == TopLevel(toks)
    IN [k \in 1..Cardinality(at) |->
          toks[CHOOSE j \in at : Cardinality({i \in at : i < j}) = k - 1].name]

\* the fixed order of the children; the two category elements share the last place
ChildOrder ==
    <<"title", "sub-title", "desc", "credits", "year", "video", "premiere", "new",
      "subtitles", "star-rating", "rating", "category">>

ChildRank(name) == CHOOSE r \in 1..Len(ChildOrder) : ChildOrder[r] = name

FlagElements == {"premiere", "new", "subtitles"}

\* C13: the children of a legacy programme element are in the fixed order; each is
\* there exactly when its value is non-empty or true (credits when there is a
\* director or a cast, video when widescreen or black-and-white); the film category
\* precedes the genre category; no element is empty but those of a true boolean,
\* which have no text.
\* A cast field holding only separators is a non-empty cast of empty names: the
\* credits element is emitted with no child.
C13_ChildOrder ==
    (fmt = "rt" /\ pc \in {"close", "done"} /\ Len(files) = 1) =>
        LET toks == ProgrammeChildren(files[1].out)
            names == ChildNames(toks)
            Has(name) == \E k \in 1..Len(names) : names[k] = name
            Filled(field) == RawField(field) # <<>>
            True(field) == RawField(field) = S_true
        IN /\ \A k \in 1..Len(names) : names[k] \in {ChildOrder[r] : r \in 1..Len(ChildOrder)}
           /\ \A a, b \in 1..Len(names) :
                a < b => \/ ChildRank(names[a]) < ChildRank(names[b])
                         \/ names[a] = "category" /\ names[b] = "category"
           /\ Has("title") <=> Filled(Fields_title)
           /\ Has("sub-title") <=> (Filled(Fields_sub_title) \/ Filled(Fields_episode))
           /\ Has("desc") <=> Filled(Fields_desc)
           /\ Has("credits") <=> (Filled(Fields_director) \/ Filled(Fields_cast))
           /\ Has("year") <=> Filled(Fields_year)
           /\ Has("video") <=> (True(Fields_widescreen) \/ True(Fields_black_and_white))
           /\ Has("premiere") <=> True(Fields_premiere)
           /\ Has("new") <=> True(Fields_new_series)
           /\ Has("subtitles") <=> True(Fields_subtitles)
           /\ Has("star-rating") <=> Filled(Fields_star_rating)
           /\ Has("rating") <=> Filled(Fields_certificate)
           /\ CategoryTexts(toks)
                = (IF True(Fields_film) THEN <<S_Film>> ELSE <<>>)
                  \o (IF Filled(Fields_genre) THEN <<RawField(Fields_genre)>> ELSE <<>>)
           /\ \A j \in 1..Len(toks) :
                toks[j].t = "start" =>
                    (toks[j + 1] = EndElement(toks[j].name) <=> toks[j].name \in FlagElements)

====
